---- MODULE Spec2Model ----
(***************************************************************************)
(* NMEA 2000 / J1939 decoder (ynsr22/nmea2000-decoder).                    *)
(*                                                                         *)
(* Two implementations of the decoder live in the repository:              *)
(*   App  : src/src/App.tsx       (string slicing over a binary string)    *)
(*   Hook : src/unnamed/part_001  (bitwise arithmetic, useCanDecoder hook) *)
(*                                                                         *)
(* JavaScript strings are modelled as sequences of one-character strings,  *)
(* JavaScript numbers as records [nan, n, e] standing for NaN or for the   *)
(* decimal n * 10^(-e).  Error messages are the literal message strings.   *)
(***************************************************************************)
EXTENDS Integers, Sequences, FiniteSets, TLC

VARIABLES
    hexInput,     \* argument handed to decodeCanMessage
    canImpl,      \* which decodeCanMessage ran last: "none", "App", "Hook"
    canResult,    \* what that call returned or threw
    dataInput,    \* payload string handed to decodeData
    pgnArg,       \* PGN handed to decodeData
    dataImpl,     \* which decodeData ran last: "none", "App", "Hook"
    decodedData,  \* React state: field name -> text, in insertion order
    dataError,    \* React state: message shown for the payload
    uiImpl,       \* the component on screen: "none", "App", "Hook"
    idInput,      \* React state: the identifier input
    decodedId,    \* React state: <<>> for null, <<record>> otherwise
    idError,      \* React state: message shown for the identifier
    effectIdPending,    \* App.tsx: the effect on [idInput] is due
    effectDataPending,  \* App.tsx: the effect on [decodedId, dataInput] is due
    queued,       \* App.tsx: state writes of effects, waiting for their render
    ran           \* the decode functions the last step called

canVars == <<hexInput, canImpl, canResult>>

dataVars == <<dataInput, pgnArg, dataImpl, decodedData, dataError>>

uiVars == <<uiImpl, idInput, decodedId, idError, effectIdPending,
            effectDataPending, queued, ran>>

vars == <<hexInput, canImpl, canResult,
          dataInput, pgnArg, dataImpl, decodedData, dataError,
          uiImpl, idInput, decodedId, idError, effectIdPending,
          effectDataPending, queued, ran>>

(***************************************************************************)
(* JavaScript built-ins used by the decoders                               *)
(***************************************************************************)

Min(a, b) == IF a < b THEN a ELSE b

\* const x = value; rest: the initialiser is evaluated once and the rest
\* of the body reads its value.
Const(value, Rest(_)) == CHOOSE result \in {Rest(x) : x \in {value}} : TRUE

Abs(x) == IF x < 0 THEN -x ELSE x

RECURSIVE Pow(_, _)
Pow(b, k) == IF k = 0 THEN 1 ELSE b * Pow(b, k - 1)

\* A JavaScript number: NaN, or the decimal n * 10^(-e) in lowest form.
NaN == [nan |-> TRUE, n |-> 0, e |-> 0]

Num(k) == [nan |-> FALSE, n |-> k, e |-> 0]

RECURSIVE Normalize(_)
Normalize(v) ==
    IF v.nan THEN NaN
    ELSE IF v.e > 0 /\ v.n % 10 = 0
         THEN Normalize([nan |-> FALSE, n |-> v.n \div 10, e |-> v.e - 1])
         ELSE v

\* Value of a character as a digit; 36 for a character that is no digit
\* in any radix up to 16.
DigitValue(c) ==
    CASE c = "0" -> 0   [] c = "1" -> 1   [] c = "2" -> 2   [] c = "3" -> 3
      [] c = "4" -> 4   [] c = "5" -> 5   [] c = "6" -> 6   [] c = "7" -> 7
      [] c = "8" -> 8   [] c = "9" -> 9
      [] c \in {"a", "A"} -> 10   [] c \in {"b", "B"} -> 11
      [] c \in {"c", "C"} -> 12   [] c \in {"d", "D"} -> 13
      [] c \in {"e", "E"} -> 14   [] c \in {"f", "F"} -> 15
      [] OTHER -> 36

\* WhiteSpace and LineTerminator of StringToNumber trimming, as far as a
\* string of this language can hold them: space, tab, line feed, carriage
\* return, form feed, then U+000B, U+00A0, U+FEFF and U+1680 written as
\* the characters themselves.  U+2000-200A, U+2028, U+2029, U+202F, U+205F
\* and U+3000 cannot be written in a string here and occur in no input.
IsWhiteSpace(c) ==
    c \in {" ", "\t", "\n", "\r", "\f", "", " ", "﻿", " "}

RECURSIVE TrimStart(_)
TrimStart(s) ==
    IF s # <<>> /\ IsWhiteSpace(Head(s)) THEN TrimStart(Tail(s)) ELSE s

\* The longest prefix of s made of digits of the radix.
RECURSIVE DigitPrefix(_, _)
DigitPrefix(s, radix) ==
    IF s # <<>> /\ DigitValue(Head(s)) < radix
    THEN <<Head(s)>> \o DigitPrefix(Tail(s), radix)
    ELSE <<>>

\* What parseInt(s, radix) scans: the sign and the digits it will read.
\* Leading white space is skipped, one sign is taken, a 0x/0X prefix is
\* skipped when the radix is 16, and reading stops at the first character
\* that is not a digit of the radix.
ParseIntScan(s, radix) ==
    LET t == TrimStart(s)
        signed == t # <<>> /\ Head(t) \in {"+", "-"}
        u == IF signed THEN Tail(t) ELSE t
        prefixed == radix = 16 /\ Len(u) >= 2 /\ u[1] = "0" /\ u[2] \in {"x", "X"}
        w == IF prefixed THEN SubSeq(u, 3, Len(u)) ELSE u
    IN  [neg |-> t # <<>> /\ Head(t) = "-", digits |-> DigitPrefix(w, radix)]

RECURSIVE DigitsValue(_, _, _)
DigitsValue(digits, radix, acc) ==
    IF digits = <<>> THEN acc
    ELSE DigitsValue(Tail(digits), radix, acc * radix + DigitValue(Head(digits)))

\* parseInt(s, radix) for radix 2 or 16: NaN when no digit can be read.
ParseInt(s, radix) ==
    Const(ParseIntScan(s, radix), LAMBDA scan :
        IF scan.digits = <<>> THEN NaN
        ELSE Const(DigitsValue(scan.digits, radix, 0), LAMBDA m :
                Num(IF scan.neg THEN -m ELSE m)))

IsNaN(v) == v.nan

\* s.substring(from, to) and s.slice(from, to) for 0 <= from, 0 <= to:
\* the characters at 0-based positions from .. to-1, clamped to the string.
Slice(s, from, to) == SubSeq(s, Min(from, Len(s)) + 1, Min(to, Len(s)))

\* s.substring(from)
SubstringFrom(s, from) == Slice(s, from, Len(s))

\* s.padStart(width, c)
RECURSIVE PadStart(_, _, _)
PadStart(s, width, c) ==
    IF Len(s) >= width THEN s ELSE PadStart(<<c>> \o s, width, c)

DecimalDigits == <<"0", "1", "2", "3", "4", "5", "6", "7", "8", "9">>

\* The digits of a natural number in a radix of at most 10.
RECURSIVE NatDigits(_, _)
NatDigits(k, radix) ==
    IF k < radix THEN <<DecimalDigits[k + 1]>>
    ELSE NatDigits(k \div radix, radix) \o <<DecimalDigits[(k % radix) + 1]>>

\* Number.prototype.toString(radix) for NaN and for decimals n * 10^(-e)
\* (radix 10), integers (radix 2).  The decimals met here lie between 1e-6
\* and 1e21 in magnitude, where no exponent is printed.
NumberToString(v, radix) ==
    IF v.nan THEN <<"N", "a", "N">>
    ELSE LET w == Normalize(v)
             scale == Pow(10, w.e)
             whole == NatDigits(Abs(w.n) \div scale, radix)
             frac == PadStart(NatDigits(Abs(w.n) % scale, radix), w.e, "0")
         IN  (IF w.n < 0 THEN <<"-">> ELSE <<>>)
             \o whole
             \o (IF w.e > 0 THEN <<".">> \o frac ELSE <<>>)

(***************************************************************************)
(* decodeCanMessage, App.tsx: string slicing                               *)
(***************************************************************************)

Throw(msg) == [threw |-> TRUE, message |-> msg, value |-> <<>>]

Return(v) == [threw |-> FALSE, message |-> "", value |-> <<v>>]

\* One hexadecimal character to its four binary digits (the map callback).
hexCharToBinary(char) ==
    PadStart(NumberToString(ParseInt(<<char>>, 16), 2), 4, "0")

RECURSIVE JoinBits(_)
JoinBits(hex) ==
    IF hex = <<>> THEN <<>> ELSE hexCharToBinary(Head(hex)) \o JoinBits(Tail(hex))

hexToBinary(hex) ==
    IF \E i \in 1..Len(hex) : IsNaN(ParseInt(<<hex[i]>>, 16))
    THEN Throw("Invalid character in hex string")
    ELSE Return(JoinBits(hex))

binaryToDecimal(binary) == ParseInt(binary, 2)

\* pdu >= 240 on JavaScript numbers: false for NaN.
AtLeast(v, k) == ~v.nan /\ v.n >= k * Pow(10, v.e)

decodeCanMessageAppBits(binary) ==
    LET priority == binaryToDecimal(Slice(binary, 0, 3))
        pdu == binaryToDecimal(Slice(binary, 5, 13))
        pds == Slice(binary, 13, 21)
        srcAddress == binaryToDecimal(Slice(binary, 21, 29))
    IN  IF AtLeast(pdu, 240)
        THEN Return([priority |-> priority,
                     pgn |-> binaryToDecimal(Slice(binary, 3, 21)),
                     srcAddress |-> srcAddress,
                     destAddress |-> Num(255),
                     pduFormat |-> "PDU2"])
        ELSE Return([priority |-> priority,
                     pgn |-> binaryToDecimal(
                                Slice(binary, 3, 13)
                                \o <<"0", "0", "0", "0", "0", "0", "0", "0">>),
                     srcAddress |-> srcAddress,
                     destAddress |-> binaryToDecimal(pds),
                     pduFormat |-> "PDU1"])

decodeCanMessageApp(hexInput_) ==
    IF Len(hexInput_) # 8
    THEN Throw("Input hex string must be exactly 8 characters long.")
    ELSE Const(hexToBinary(hexInput_), LAMBDA bits :
            IF bits.threw THEN bits
            ELSE Const(SubstringFrom(bits.value[1], 3), LAMBDA binary :
                    IF Len(binary) # 29
                    THEN Throw("Converted binary string must be 29 bits long.")
                    ELSE decodeCanMessageAppBits(binary)))

(***************************************************************************)
(* decodeCanMessage, part_001: bitwise arithmetic                          *)
(***************************************************************************)

\* One step of reading a hexadecimal digit into a 32-bit two's-complement
\* accumulator: (acc * 16 + d) modulo 2^32 as a signed value, computed
\* without leaving the signed 32-bit range on the way.
WrapStep(acc, d) ==
    LET low == acc % Pow(2, 28)
    IN  IF low >= Pow(2, 27) THEN (low - Pow(2, 28)) * 16 + d ELSE low * 16 + d

RECURSIVE DigitsInt32(_, _)
DigitsInt32(digits, acc) ==
    IF digits = <<>> THEN acc
    ELSE DigitsInt32(Tail(digits), WrapStep(acc, DigitValue(Head(digits))))

\* ToInt32(parseInt(s, 16)): the 32-bit integer the operators >> and & see.
\* NaN converts to 0 and the value wraps modulo 2^32.
ParseIntToInt32(s) ==
    LET scan == ParseIntScan(s, 16)
        m == DigitsInt32(scan.digits, 0)
    IN  IF scan.digits = <<>> THEN 0
        ELSE IF scan.neg /\ m # -2147483647 - 1 THEN -m ELSE m

\* x >> k on a 32-bit integer: the sign-propagating shift (\div rounds down).
ShiftRight(x, k) == x \div Pow(2, k)

\* x & mask for a mask 0 <= mask < 2^30 (bit i of x is (x >> i) % 2).
RECURSIVE BitAndFrom(_, _, _)
BitAndFrom(x, mask, i) ==
    IF Pow(2, i) > mask THEN 0
    ELSE ((mask \div Pow(2, i)) % 2) * (ShiftRight(x, i) % 2) * Pow(2, i)
         + BitAndFrom(x, mask, i + 1)

BitAnd(x, mask) == BitAndFrom(x, mask, 0)

\* Mutant: the priority read three bits too high.
hookPriority_Shift29(num) == BitAnd(ShiftRight(num, 29), 7)

\* Mutant: the priority left unmasked.
hookPriority_NoMask(num) == ShiftRight(num, 26)

hookPriority(num) == BitAnd(ShiftRight(num, 26), 7)

hookPdu(num) == BitAnd(ShiftRight(num, 16), 255)

hookSrcAddress(num) == BitAnd(num, 255)

\* Mutant: the threshold tested strictly.
hookPduFormat_Strict(pdu) == IF pdu > 240 THEN "PDU2" ELSE "PDU1"

hookPduFormat(pdu) == IF pdu >= 240 THEN "PDU2" ELSE "PDU1"

\* Mutant: a 16-bit mask for PDU2, losing reserved and data page.
hookPgn_Mask16(num, pdu) ==
    IF pdu >= 240 THEN BitAnd(ShiftRight(num, 8), 65535)
    ELSE BitAnd(ShiftRight(num, 16), 65280)

hookPgn(num, pdu) ==
    IF pdu >= 240 THEN BitAnd(ShiftRight(num, 8), 262143)
    ELSE BitAnd(ShiftRight(num, 16), 65280)

hookDestAddress(num, pdu) ==
    IF pdu >= 240 THEN 255 ELSE BitAnd(ShiftRight(num, 8), 255)

decodeCanMessageHook(hexInput_) ==
    IF Len(hexInput_) # 8
    THEN Throw("Input hex string must be exactly 8 characters long.")
    ELSE LET num == ParseIntToInt32(hexInput_)
             pdu == hookPdu(num)
         IN  Return([priority |-> Num(hookPriority(num)),
                     pgn |-> Num(hookPgn(num, pdu)),
                     srcAddress |-> Num(hookSrcAddress(num)),
                     destAddress |-> Num(hookDestAddress(num, pdu)),
                     pduFormat |-> hookPduFormat(pdu)])

(***************************************************************************)
(* The schema registry and decodeData                                      *)
(***************************************************************************)

\* PGN_DATA of App.tsx: the keys are strings, here character sequences.
PGN_DATA ==
    {[key |-> <<"1", "2", "7", "5", "0", "8">>,
      name |-> "Vessel Heading",
      fields |-> <<[name |-> "SID", start |-> 0, length |-> 1, units |-> ""],
                   [name |-> "Heading", start |-> 1, length |-> 2, units |-> "rad"],
                   [name |-> "Deviation", start |-> 3, length |-> 2, units |-> "rad"],
                   [name |-> "Variation", start |-> 5, length |-> 2, units |-> "rad"],
                   [name |-> "Reference", start |-> 7, length |-> 1, units |-> ""]>>]}

\* PGN_DATA of part_001.
PGN_DATA_Hook ==
    {[key |-> <<"1", "2", "7", "5", "0", "8">>,
      name |-> "Vessel Heading",
      fields |-> <<[name |-> "SID", start |-> 0, length |-> 1, units |-> ""],
                   [name |-> "Heading", start |-> 1, length |-> 2, units |-> "rad"],
                   [name |-> "Deviation", start |-> 3, length |-> 2, units |-> "rad"],
                   [name |-> "Variation", start |-> 5, length |-> 2, units |-> "rad"],
                   [name |-> "Reference", start |-> 7, length |-> 1, units |-> ""]>>]}

\* registry[key]: the entries stored under the key (none: undefined).
Lookup(registry, key) == {info \in registry : info.key = key}

\* value * 0.0001.  The double product differs from the decimal n * 10^(-e-4)
\* by far less than half of 1e-4, so toFixed(4) rounds both to the same digits.
TimesTenThousandth(v) ==
    IF v.nan THEN NaN ELSE [nan |-> FALSE, n |-> v.n, e |-> v.e + 4]

\* Number.prototype.toFixed(digits): the nearest multiple of 10^(-digits),
\* the larger magnitude on a tie, printed with exactly `digits` decimals.
ToFixed(v, digits) ==
    IF v.nan THEN <<"N", "a", "N">>
    ELSE LET q == Pow(10, IF v.e > digits THEN v.e - digits ELSE 0)
             up == Pow(10, IF v.e > digits THEN 0 ELSE digits - v.e)
             m == ((2 * Abs(v.n) * up + q) \div (2 * q))
             all == PadStart(NatDigits(m, 10), digits + 1, "0")
         IN  (IF v.n < 0 THEN <<"-">> ELSE <<>>)
             \o SubSeq(all, 1, Len(all) - digits)
             \o (IF digits > 0
                 THEN <<".">> \o SubSeq(all, Len(all) - digits + 1, Len(all))
                 ELSE <<>>)

\* parseFloat(s) on the strings toFixed produces and on other decimal
\* literals without exponent: NaN when no digit can be read.
ParseFloat(s) ==
    LET t == TrimStart(s)
        signed == t # <<>> /\ Head(t) \in {"+", "-"}
        u == IF signed THEN Tail(t) ELSE t
        whole == DigitPrefix(u, 10)
        rest == SubSeq(u, Len(whole) + 1, Len(u))
        frac == IF rest # <<>> /\ Head(rest) = "." THEN DigitPrefix(Tail(rest), 10)
                ELSE <<>>
        m == DigitsValue(whole \o frac, 10, 0)
    IN  IF whole = <<>> /\ frac = <<>> THEN NaN
        ELSE Normalize([nan |-> FALSE,
                        n |-> IF signed /\ Head(t) = "-" THEN -m ELSE m,
                        e |-> Len(frac)])

\* An order on strings of decimal digits without leading zeros: by value.
IndexLess(a, b) ==
    \/ Len(a) < Len(b)
    \/ /\ Len(a) = Len(b)
       /\ \E i \in 1..Len(a) :
             /\ SubSeq(a, 1, i - 1) = SubSeq(b, 1, i - 1)
             /\ DigitValue(SubSeq(a, i, i)) < DigitValue(SubSeq(b, i, i))

\* A property name that is an array index: the canonical decimal text of
\* an integer from 0 to 2^32 - 2.
IsArrayIndex(name) ==
    /\ Len(name) \in 1..10
    /\ \A i \in 1..Len(name) : DigitValue(SubSeq(name, i, i)) < 10
    /\ (Len(name) > 1 => SubSeq(name, 1, 1) # "0")
    /\ ~IndexLess("4294967294", name)

\* acc[name] = text on an object literal, text a string; the sequence is
\* the order Object.entries lists the object in.  An old key keeps its
\* place; a new array-index key goes among the array-index keys, which come
\* first in ascending order; any other new key goes last.  __proto__ is the
\* accessor of Object.prototype, whose setter ignores a string: no entry.
SetKey(acc, name, text) ==
    IF name = "__proto__" THEN acc
    ELSE IF \E i \in 1..Len(acc) : acc[i].name = name
    THEN [i \in 1..Len(acc) |->
            IF acc[i].name = name THEN [name |-> name, value |-> text] ELSE acc[i]]
    ELSE IF IsArrayIndex(name)
    THEN LET before == Cardinality({i \in 1..Len(acc) :
                           IsArrayIndex(acc[i].name) /\ IndexLess(acc[i].name, name)})
         IN  SubSeq(acc, 1, before)
             \o <<[name |-> name, value |-> text]>>
             \o SubSeq(acc, before + 1, Len(acc))
    ELSE Append(acc, [name |-> name, value |-> text])

\* Mutant: three decimals kept instead of four.
fieldTextApp_ToFixed3(data, field) ==
    LET startByte == field.start * 2
        endByte == startByte + field.length * 2
        value == ParseInt(Slice(data, startByte, endByte), 16)
    IN  NumberToString(
            IF field.units = "rad"
            THEN ParseFloat(ToFixed(TimesTenThousandth(value), 3))
            ELSE value,
            10)

\* The body of the forEach callback of App.tsx: the text stored for a field.
fieldTextApp(data, field) ==
    LET startByte == field.start * 2
        endByte == startByte + field.length * 2
        value == ParseInt(Slice(data, startByte, endByte), 16)
    IN  NumberToString(
            IF field.units = "rad"
            THEN ParseFloat(ToFixed(TimesTenThousandth(value), 4))
            ELSE value,
            10)

RECURSIVE forEachFieldApp(_, _, _)
forEachFieldApp(fields, data, decodedFields) ==
    IF fields = <<>> THEN decodedFields
    ELSE forEachFieldApp(Tail(fields), data,
            SetKey(decodedFields, Head(fields).name, fieldTextApp(data, Head(fields))))

\* Mutant: the registry consulted before the length is checked.
decodeDataApp_LookupFirst(data, pgn) ==
    LET pgnInfo == Lookup(PGN_DATA, NumberToString(pgn, 10))
    IN  IF pgnInfo = {}
        THEN [decodedData |-> <<>>, dataError |-> "Unknown PGN"]
        ELSE IF Len(data) # 16
        THEN [decodedData |-> <<>>,
              dataError |-> "Data must be 8 bytes (16 hex characters)"]
        ELSE [decodedData |->
                  forEachFieldApp((CHOOSE info \in pgnInfo : TRUE).fields, data, <<>>),
              dataError |-> ""]

\* decodeData of App.tsx: the values it hands to setDecodedData and
\* setDataError.
decodeDataApp(data, pgn) ==
    IF Len(data) # 16
    THEN [decodedData |-> <<>>,
          dataError |-> "Data must be 8 bytes (16 hex characters)"]
    ELSE LET pgnInfo == Lookup(PGN_DATA, NumberToString(pgn, 10))
         IN  IF pgnInfo = {}
             THEN [decodedData |-> <<>>, dataError |-> "Unknown PGN"]
             ELSE [decodedData |->
                       forEachFieldApp((CHOOSE info \in pgnInfo : TRUE).fields,
                                       data, <<>>),
                   dataError |-> ""]

\* The body of the reduce callback of part_001.
fieldTextHook(data, field) ==
    LET startByte == field.start * 2
        endByte == startByte + field.length * 2
        value == ParseInt(Slice(data, startByte, endByte), 16)
    IN  NumberToString(
            IF field.units = "rad"
            THEN ParseFloat(ToFixed(TimesTenThousandth(value), 4))
            ELSE value,
            10)

RECURSIVE reduceFieldsHook(_, _, _)
reduceFieldsHook(fields, data, acc) ==
    IF fields = <<>> THEN acc
    ELSE reduceFieldsHook(Tail(fields), data,
            SetKey(acc, Head(fields).name, fieldTextHook(data, Head(fields))))

\* Mutant: an unknown PGN reported with the message of the length check.
decodeDataHook_WrongMessage(data, pgn) ==
    IF Len(data) # 16
    THEN [decodedData |-> <<>>,
          dataError |-> "Data must be 8 bytes (16 hex characters)"]
    ELSE LET pgnInfo == Lookup(PGN_DATA_Hook, NumberToString(pgn, 10))
         IN  IF pgnInfo = {}
             THEN [decodedData |-> <<>>,
                   dataError |-> "Data must be 8 bytes (16 hex characters)"]
             ELSE [decodedData |->
                       reduceFieldsHook((CHOOSE info \in pgnInfo : TRUE).fields,
                                        data, <<>>),
                   dataError |-> ""]

\* decodeData of part_001.
decodeDataHook(data, pgn) ==
    IF Len(data) # 16
    THEN [decodedData |-> <<>>,
          dataError |-> "Data must be 8 bytes (16 hex characters)"]
    ELSE LET pgnInfo == Lookup(PGN_DATA_Hook, NumberToString(pgn, 10))
         IN  IF pgnInfo = {}
             THEN [decodedData |-> <<>>, dataError |-> "Unknown PGN"]
             ELSE [decodedData |->
                       reduceFieldsHook((CHOOSE info \in pgnInfo : TRUE).fields,
                                        data, <<>>),
                   dataError |-> ""]

(***************************************************************************)
(* Inputs                                                                  *)
(***************************************************************************)

\* Longest identifier string and longest payload string tried.
MaxIdLen == 10

MaxDataLen == 18

\* Characters that are no hexadecimal digit; some mean something to parseInt.
BadChars == {"G", "x", " ", "\f", "-"}

\* Identifiers of 8 hexadecimal digits, by position: the top three bits and
\* the first priority bit; two priority bits and reserved/data page; PF; PS;
\* the source address.  19F21451 is the default identifier of App.tsx.
ValidIds ==
    {<<a, b, c, d, e, f, g, h>> :
        a \in {"1", "0", "F", "e"}, b \in {"9", "8", "3"},
        c \in {"F", "E", "0"}, d \in {"2", "0", "F"},
        e \in {"1", "0", "a"}, f \in {"4", "F"},
        g \in {"5", "0"}, h \in {"1", "F"}}

BaseIds ==
    {<<"1", "9", "F", "2", "1", "4", "5", "1">>,
     <<"0", "D", "E", "F", "2", "3", "0", "1">>,
     <<"F", "F", "F", "F", "F", "F", "F", "F">>,
     <<"1", "8", "E", "A", "2", "3", "5", "1">>}

CorruptIds ==
    {[id EXCEPT ![i] = c] : id \in BaseIds, i \in 1..8, c \in BadChars}

ShortIds == {SubSeq(id, 1, k) : id \in BaseIds, k \in 0..7}

LongIds ==
    {id \o [i \in 1..k |-> c] : id \in BaseIds, k \in 1..(MaxIdLen - 8), c \in {"0", "G"}}

IdInputs == ValidIds \cup CorruptIds \cup ShortIds \cup LongIds

\* Payloads of 16 hexadecimal digits: SID, Heading, Deviation, Variation,
\* Reference.  00123456789ABCDE is the default payload of App.tsx.
ValidPayloads ==
    {sid \o heading \o deviation \o variation \o reference :
        sid \in {<<"0", "0">>, <<"F", "F">>},
        heading \in {<<"1", "2", "3", "4">>, <<"0", "0", "0", "0">>,
                     <<"F", "F", "F", "F">>, <<"0", "0", "0", "a">>},
        deviation \in {<<"5", "6", "7", "8">>, <<"0", "0", "0", "1">>,
                       <<"2", "7", "1", "0">>},
        variation \in {<<"9", "A", "B", "C">>, <<"0", "0", "6", "4">>},
        reference \in {<<"D", "E">>, <<"0", "0">>}}

DefaultPayload ==
    <<"0", "0", "1", "2", "3", "4", "5", "6", "7", "8", "9", "A", "B", "C", "D", "E">>

BasePayloads ==
    {DefaultPayload,
     <<"F", "F", "0", "0", "0", "a", "2", "7", "1", "0", "0", "0", "6", "4", "0", "0">>}

CorruptPayloads ==
    {[p EXCEPT ![i] = c] : p \in BasePayloads, i \in 1..16, c \in BadChars}

ShortPayloads == {SubSeq(p, 1, k) : p \in BasePayloads, k \in 0..15}

LongPayloads ==
    {p \o [i \in 1..k |-> c] : p \in BasePayloads, k \in 1..(MaxDataLen - 16),
                               c \in {"0", "G"}}

DataInputs == ValidPayloads \cup CorruptPayloads \cup ShortPayloads \cup LongPayloads

\* PGNs handed to decodeData: the registered one, PGNs an identifier can
\* carry, and 999999, which no identifier carries.
RegisteredPgn == Num(127508)

PgnArgs == {RegisteredPgn, Num(999999), Num(59904), Num(0)}

\* What decodedData and dataError can hold before a call: the initial
\* state and the outcomes of an earlier decode.
PriorDataStates ==
    {[decodedData |-> <<>>, dataError |-> ""]}
    \cup {decodeDataApp(p, RegisteredPgn) : p \in BasePayloads}
    \cup {decodeDataApp(DefaultPayload, Num(999999)), decodeDataApp(<<>>, RegisteredPgn)}

\* The variables of the component, when no component is on screen.
\* No state write is waiting: per setter, <<>> for none or <<value>> for
\* the last value handed to it.
NoWrites ==
    [decodedId |-> <<>>, idError |-> <<>>, decodedData |-> <<>>, dataError |-> <<>>]

NoUi ==
    /\ uiImpl = "none"
    /\ idInput = <<>>
    /\ decodedId = <<>>
    /\ idError = ""
    /\ effectIdPending = FALSE
    /\ effectDataPending = FALSE
    /\ queued = NoWrites
    /\ ran = {}

NoResult == [threw |-> FALSE, message |-> "", value |-> <<>>]

(***************************************************************************)
(* SpecId: decodeCanMessage of either implementation applied to an input   *)
(***************************************************************************)

InitId ==
    /\ hexInput \in IdInputs
    /\ canImpl = "none"
    /\ canResult = NoResult
    /\ dataInput = <<>>
    /\ pgnArg = Num(0)
    /\ dataImpl = "none"
    /\ decodedData = <<>>
    /\ dataError = ""
    /\ NoUi

CallDecodeCanMessageApp ==
    /\ canImpl' = "App"
    /\ canResult' = decodeCanMessageApp(hexInput)
    /\ UNCHANGED <<hexInput, dataVars, uiVars>>

CallDecodeCanMessageHook ==
    /\ canImpl' = "Hook"
    /\ canResult' = decodeCanMessageHook(hexInput)
    /\ UNCHANGED <<hexInput, dataVars, uiVars>>

NextId == CallDecodeCanMessageApp \/ CallDecodeCanMessageHook

SpecId == InitId /\ [][NextId]_vars

(***************************************************************************)
(* SpecData: decodeData of either implementation applied to an input       *)
(***************************************************************************)

InitData ==
    /\ dataInput \in DataInputs
    /\ pgnArg \in PgnArgs
    /\ dataImpl = "none"
    /\ \E prior \in PriorDataStates :
          /\ decodedData = prior.decodedData
          /\ dataError = prior.dataError
    /\ hexInput = <<>>
    /\ canImpl = "none"
    /\ canResult = NoResult
    /\ NoUi

CallDecodeDataApp ==
    /\ dataImpl' = "App"
    /\ decodedData' = decodeDataApp(dataInput, pgnArg).decodedData
    /\ dataError' = decodeDataApp(dataInput, pgnArg).dataError
    /\ UNCHANGED <<dataInput, pgnArg, canVars, uiVars>>

CallDecodeDataHook ==
    /\ dataImpl' = "Hook"
    /\ decodedData' = decodeDataHook(dataInput, pgnArg).decodedData
    /\ dataError' = decodeDataHook(dataInput, pgnArg).dataError
    /\ UNCHANGED <<dataInput, pgnArg, canVars, uiVars>>

NextData == CallDecodeDataApp \/ CallDecodeDataHook

SpecData == InitData /\ [][NextData]_vars

(***************************************************************************)
(* Reference readings of an identifier and of a payload, by digit          *)
(* arithmetic on the input string                                          *)
(***************************************************************************)

HexChars ==
    {"0", "1", "2", "3", "4", "5", "6", "7", "8", "9",
     "a", "b", "c", "d", "e", "f", "A", "B", "C", "D", "E", "F"}

IsHexString(s) == \A i \in 1..Len(s) : s[i] \in HexChars

IsHexId(s) == Len(s) = 8 /\ IsHexString(s)

IsHexPayload(s) == Len(s) = 16 /\ IsHexString(s)

\* Bits 28-26, bits 25-24, bits 23-16, bits 15-8 and bits 7-0.
IdPriority(s) == (DigitValue(s[1]) % 2) * 4 + DigitValue(s[2]) \div 4

IdDataPage(s) == DigitValue(s[2]) % 4

IdPF(s) == DigitValue(s[3]) * 16 + DigitValue(s[4])

IdPS(s) == DigitValue(s[5]) * 16 + DigitValue(s[6])

IdSA(s) == DigitValue(s[7]) * 16 + DigitValue(s[8])

DecodeCanMessage(impl, s) ==
    IF impl = "App" THEN decodeCanMessageApp(s) ELSE decodeCanMessageHook(s)

DefaultId == <<"1", "9", "F", "2", "1", "4", "5", "1">>

LengthMessage == "Input hex string must be exactly 8 characters long."

(***************************************************************************)
(* Claims on decodeCanMessage, checked under SpecId                        *)
(***************************************************************************)

\* C1: for 8 hex digits with PF < 240, either implementation returns
\* pgn = (bits 25-16) * 256, so PS adds nothing, and destAddress = PS.
C1_Pdu1PgnAndDest ==
    (canImpl # "none" /\ IsHexId(hexInput) /\ IdPF(hexInput) < 240) =>
        /\ ~canResult.threw
        /\ canResult.value[1].pgn
             = Num((IdDataPage(hexInput) * 256 + IdPF(hexInput)) * 256)
        /\ canResult.value[1].destAddress = Num(IdPS(hexInput))

\* C2: for 8 hex digits with PF >= 240, either implementation returns
\* pgn = bits 25-8: reserved/data page, PF and PS concatenated.
C2_Pdu2Pgn ==
    (canImpl # "none" /\ IsHexId(hexInput) /\ IdPF(hexInput) >= 240) =>
        /\ ~canResult.threw
        /\ canResult.value[1].pgn
             = Num(IdDataPage(hexInput) * 65536 + IdPF(hexInput) * 256
                   + IdPS(hexInput))

C2_Witness ==
    /\ canImpl = "Hook"
    /\ IsHexId(hexInput)
    /\ IdPF(hexInput) >= 240
    /\ IdDataPage(hexInput) = 3
    /\ IdPS(hexInput) > 0
    /\ ~canResult.threw
    /\ canResult.value[1].pgn.n >= 196608

\* C3: either implementation throws, returning no record, for every input
\* whose length is not 8 (with the length message) and for every input of
\* 8 characters of which one is no hexadecimal digit.
C3_RejectsMalformed ==
    (canImpl # "none" /\ ~IsHexId(hexInput)) =>
        /\ canResult.threw
        /\ canResult.value = <<>>
        /\ (Len(hexInput) # 8 => canResult.message = LengthMessage)

\* C4: two inputs of 8 hex digits that differ only in bits 31-29 decode to
\* the same record, in either implementation.
C4_TopBitsIgnored ==
    (canImpl # "none" /\ IsHexId(hexInput)) =>
        \A c \in HexChars :
            DigitValue(c) % 2 = DigitValue(hexInput[1]) % 2 =>
                DecodeCanMessage(canImpl, <<c>> \o Tail(hexInput)) = canResult

\* C5 as stated: 19F21451 decodes to priority 0, PDU2, srcAddress 81 and
\* destAddress 255.
C5_Scenario1AsStated ==
    (canImpl # "none" /\ hexInput = DefaultId) =>
        /\ ~canResult.threw
        /\ canResult.value[1].priority = Num(0)
        /\ canResult.value[1].pduFormat = "PDU2"
        /\ canResult.value[1].srcAddress = Num(81)
        /\ canResult.value[1].destAddress = Num(255)

\* C5 amended: 19F21451 decodes to priority 6 (bits 28-26 are 110), PDU2,
\* srcAddress 81 and destAddress 255, in either implementation.
C5_Scenario1 ==
    (canImpl # "none" /\ hexInput = DefaultId) =>
        /\ ~canResult.threw
        /\ canResult.value[1].priority = Num(6)
        /\ canResult.value[1].pduFormat = "PDU2"
        /\ canResult.value[1].srcAddress = Num(81)
        /\ canResult.value[1].destAddress = Num(255)

C5_Witness ==
    /\ canImpl = "Hook"
    /\ hexInput = DefaultId
    /\ ~canResult.threw
    /\ canResult.value[1].priority = Num(6)

IsIntegerIn(v, lo, hi) == ~v.nan /\ v.e = 0 /\ v.n \in lo..hi

\* C10: for 8 hex digits decodeCanMessage never throws and returns
\* priority in 0..7, pgn in 0..2^18-1, srcAddress and destAddress in
\* 0..255, and destAddress 255 whenever pduFormat is PDU2.
C10_TotalAndWellFormed ==
    (canImpl # "none" /\ IsHexId(hexInput)) =>
        /\ ~canResult.threw
        /\ Len(canResult.value) = 1
        /\ IsIntegerIn(canResult.value[1].priority, 0, 7)
        /\ IsIntegerIn(canResult.value[1].pgn, 0, 262143)
        /\ IsIntegerIn(canResult.value[1].srcAddress, 0, 255)
        /\ IsIntegerIn(canResult.value[1].destAddress, 0, 255)
        /\ canResult.value[1].pduFormat \in {"PDU1", "PDU2"}
        /\ (canResult.value[1].pduFormat = "PDU2"
               => canResult.value[1].destAddress = Num(255))

C10_Witness ==
    /\ canImpl = "Hook"
    /\ IsHexId(hexInput)
    /\ hexInput[1] = "F"
    /\ IdPF(hexInput) < 240
    /\ ~canResult.threw
    /\ canResult.value[1].priority = Num(IdPriority(hexInput))
    /\ canResult.value[1].srcAddress = Num(IdSA(hexInput))

(***************************************************************************)
(* Claims on decodeData, checked under SpecData                            *)
(***************************************************************************)

Registered(pgn) == \E info \in PGN_DATA : info.key = NumberToString(pgn, 10)

SchemaOf(pgn) == (CHOOSE info \in PGN_DATA : info.key = NumberToString(pgn, 10)).fields

PayloadLengthMessage == "Data must be 8 bytes (16 hex characters)"

\* The big-endian unsigned integer of payload bytes [start, start+length).
RECURSIVE BytesValue(_, _, _)
BytesValue(data, start, length) ==
    IF length = 0 THEN 0
    ELSE BytesValue(data, start, length - 1) * 256
         + DigitValue(data[2 * (start + length - 1) + 1]) * 16
         + DigitValue(data[2 * (start + length - 1) + 2])

RECURSIVE StripTrailingZeros(_)
StripTrailingZeros(s) ==
    IF s # <<>> /\ s[Len(s)] = "0" THEN StripTrailingZeros(SubSeq(s, 1, Len(s) - 1))
    ELSE s

\* The decimal text of k / 10000.
TenThousandthsText(k) ==
    LET frac == StripTrailingZeros(PadStart(NatDigits(k % 10000, 10), 4, "0"))
    IN  NatDigits(k \div 10000, 10) \o (IF frac = <<>> THEN <<>> ELSE <<".">> \o frac)

ExpectedText(data, field) ==
    IF field.units = "rad"
    THEN TenThousandthsText(BytesValue(data, field.start, field.length))
    ELSE NatDigits(BytesValue(data, field.start, field.length), 10)

DefaultDecoded ==
    <<[name |-> "SID", value |-> <<"0">>],
      [name |-> "Heading", value |-> <<"0", ".", "4", "6", "6">>],
      [name |-> "Deviation", value |-> <<"2", ".", "2", "1", "3", "6">>],
      [name |-> "Variation", value |-> <<"3", ".", "9", "6", "1", "2">>],
      [name |-> "Reference", value |-> <<"2", "2", "2">>]>>

\* C6: for a registered PGN and a payload of 16 hex digits, decodeData
\* stores one entry per schema field, in schema order, each the big-endian
\* unsigned integer of the field's bytes: as decimal text, or, for unit
\* rad, as the text of that integer over 10000; and 00123456789ABCDE
\* against 127508 gives 0, 0.466, 2.2136, 3.9612 and 222.
C6_FieldsDecoded ==
    (dataImpl # "none" /\ IsHexPayload(dataInput) /\ Registered(pgnArg)) =>
        /\ dataError = ""
        /\ Len(decodedData) = Len(SchemaOf(pgnArg))
        /\ \A i \in 1..Len(decodedData) :
              /\ decodedData[i].name = SchemaOf(pgnArg)[i].name
              /\ decodedData[i].value = ExpectedText(dataInput, SchemaOf(pgnArg)[i])
        /\ (dataInput = DefaultPayload /\ pgnArg = Num(127508)
               => decodedData = DefaultDecoded)

C6_Witness ==
    /\ dataImpl = "App"
    /\ dataInput = DefaultPayload
    /\ pgnArg = Num(127508)
    /\ decodedData = DefaultDecoded

\* C7 as stated: for a PGN with no registry entry decodeData reports
\* Unknown PGN, and no other error, for every payload string whatever its
\* length, and leaves the decoded payload empty.
C7_UnknownPgnAsStated ==
    (dataImpl # "none" /\ ~Registered(pgnArg)) =>
        /\ dataError = "Unknown PGN"
        /\ decodedData = <<>>

\* C7 amended: for a PGN with no registry entry and a payload string of
\* exactly 16 characters, hexadecimal or not, decodeData reports Unknown
\* PGN, and no other error, and leaves the decoded payload empty.
C7_UnknownPgn ==
    (dataImpl # "none" /\ ~Registered(pgnArg) /\ Len(dataInput) = 16) =>
        /\ dataError = "Unknown PGN"
        /\ decodedData = <<>>

C7_Witness ==
    /\ dataImpl = "Hook"
    /\ pgnArg = Num(999999)
    /\ Len(dataInput) = 16
    /\ ~IsHexString(dataInput)
    /\ dataError = "Unknown PGN"
    /\ decodedData = <<>>

\* C8: for a payload string whose length is not 16 decodeData reports the
\* payload-length error and leaves the decoded payload empty, whether or
\* not the PGN is registered.
C8_LengthCheckedFirst ==
    (dataImpl # "none" /\ Len(dataInput) # 16) =>
        /\ dataError = PayloadLengthMessage
        /\ decodedData = <<>>

C8_Witness ==
    /\ dataImpl = "App"
    /\ Len(dataInput) = 17
    /\ ~Registered(pgnArg)
    /\ dataError = PayloadLengthMessage
    /\ decodedData = <<>>

\* C9: for a payload of 16 characters of which one is no hexadecimal
\* digit, decodeData reports an error and stores no field values.
C9_RejectsNonHexPayload ==
    (dataImpl # "none" /\ Len(dataInput) = 16 /\ ~IsHexString(dataInput)) =>
        /\ dataError # ""
        /\ decodedData = <<>>

(***************************************************************************)
(* Further claims on decodeCanMessage, checked under SpecId                *)
(***************************************************************************)

\* C11: for 8 hex digits either implementation answers PDU2 exactly when
\* the PF byte is at least 240 and PDU1 otherwise, whatever the other
\* bits: PF = 0xEF gives PDU1 and PF = 0xF0 gives PDU2.
C11_PduClassification ==
    (canImpl # "none" /\ IsHexId(hexInput)) =>
        /\ ~canResult.threw
        /\ (canResult.value[1].pduFormat = "PDU2") = (IdPF(hexInput) >= 240)
        /\ (canResult.value[1].pduFormat = "PDU1") = (IdPF(hexInput) < 240)

C11_Witness ==
    /\ canImpl = "Hook"
    /\ IsHexId(hexInput)
    /\ IdPF(hexInput) = 240
    /\ ~canResult.threw
    /\ canResult.value[1].pduFormat = "PDU2"
    /\ decodeCanMessageHook([hexInput EXCEPT ![3] = "E", ![4] = "F"]).value[1].pduFormat
         = "PDU1"

\* C15: on 8 hex digits the two implementations agree on
\* priority, pduFormat, srcAddress and destAddress, and on pgn when
\* PF >= 240; when PF < 240 the part_001 implementation returns
\* pgn = PF byte * 256.
C15_SideBySideAsStated ==
    (canImpl # "none" /\ IsHexId(hexInput)) =>
        LET app == decodeCanMessageApp(hexInput)
            hook == decodeCanMessageHook(hexInput)
        IN  /\ ~app.threw /\ ~hook.threw
            /\ app.value[1].priority = hook.value[1].priority
            /\ app.value[1].pduFormat = hook.value[1].pduFormat
            /\ app.value[1].srcAddress = hook.value[1].srcAddress
            /\ app.value[1].destAddress = hook.value[1].destAddress
            /\ (IdPF(hexInput) >= 240 => app.value[1].pgn = hook.value[1].pgn)
            /\ (IdPF(hexInput) < 240 => hook.value[1].pgn = Num(IdPF(hexInput) * 256))

(***************************************************************************)
(* The components: React state, handlers and effects                       *)
(*                                                                         *)
(* part_001: a handler decodes inside the input event; its writes are      *)
(* rendered when the event ends, before the next event.                    *)
(*                                                                         *)
(* App.tsx: a handler only sets its input; the render of that write makes  *)
(* an effect due.  An effect reads the state of the render it belongs to   *)
(* and queues its writes, which are rendered later, in their own task:     *)
(* another input event can be handled before that render.  Effects that    *)
(* are due run before any further event or render.                         *)
(***************************************************************************)

CurrentUi ==
    [idInput |-> idInput, dataInput |-> dataInput, decodedId |-> decodedId,
     decodedData |-> decodedData, idError |-> idError, dataError |-> dataError]

SetUi(st) ==
    /\ idInput' = st.idInput
    /\ dataInput' = st.dataInput
    /\ decodedId' = st.decodedId
    /\ decodedData' = st.decodedData
    /\ idError' = st.idError
    /\ dataError' = st.dataError

\* decodedId && decodedId.pgn, decoded?.pgn, decodedId?.pgn as a condition:
\* a record is there and its pgn is neither 0 nor NaN.
HasTruthyPgn(decoded) == decoded # <<>> /\ ~decoded[1].pgn.nan /\ decoded[1].pgn.n # 0

\* ---- part_001: useCanDecoder ----

\* decodeId: the state after its writes; the record it returns is the
\* decodedId it wrote.
decodeIdHook(st, input) ==
    LET r == decodeCanMessageHook(input)
    IN  IF r.threw
        THEN [st EXCEPT !.decodedId = <<>>, !.idError = r.message, !.decodedData = <<>>]
        ELSE [st EXCEPT !.decodedId = r.value, !.idError = ""]

\* Mutant: a failed payload decode also reported as an identifier error.
writeDecodeDataHook_TouchesIdError(st, data, pgn) ==
    LET r == decodeDataHook(data, pgn)
    IN  [st EXCEPT !.decodedData = r.decodedData, !.dataError = r.dataError,
                   !.idError = r.dataError]

\* decodeData: the state after its writes.
writeDecodeDataHook(st, data, pgn) ==
    LET r == decodeDataHook(data, pgn)
    IN  [st EXCEPT !.decodedData = r.decodedData, !.dataError = r.dataError]

handleIdInputChangeHook(st, input) ==
    LET afterId == decodeIdHook([st EXCEPT !.idInput = input], input)
        decoded == afterId.decodedId
    IN  IF HasTruthyPgn(decoded)
        THEN writeDecodeDataHook(afterId, st.dataInput, decoded[1].pgn)
        ELSE afterId

handleDataInputChangeHook(st, input) ==
    IF HasTruthyPgn(st.decodedId)
    THEN writeDecodeDataHook([st EXCEPT !.dataInput = input], input, st.decodedId[1].pgn)
    ELSE [st EXCEPT !.dataInput = input]

\* ---- App.tsx: NMEA2000Decoder ----

\* The effect on [idInput].
effectIdApp(render, writes) ==
    LET r == decodeCanMessageApp(render.idInput)
    IN  IF r.threw
        THEN [writes EXCEPT !.decodedId = << <<>> >>, !.idError = <<r.message>>,
                            !.decodedData = << <<>> >>]
        ELSE [writes EXCEPT !.decodedId = <<r.value>>, !.idError = <<"">>]

\* decodeData: the writes it queues.
writeDecodeDataApp(writes, data, pgn) ==
    LET r == decodeDataApp(data, pgn)
    IN  [writes EXCEPT !.decodedData = <<r.decodedData>>, !.dataError = <<r.dataError>>]

\* The effect on [decodedId, dataInput].
effectDataApp(render, writes) ==
    IF HasTruthyPgn(render.decodedId)
    THEN writeDecodeDataApp(writes, render.dataInput, render.decodedId[1].pgn)
    ELSE writes

\* The writes queued once the effects that are due have run, in the order
\* the component declares them, all reading the state of the same render.
commitEffectsApp(render, idDue, dataDue, writes) ==
    LET afterId == IF idDue THEN effectIdApp(render, writes) ELSE writes
    IN  IF dataDue THEN effectDataApp(render, afterId) ELSE afterId

\* The state a render shows once the queued writes are applied: the last
\* value handed to each setter.
applyWrites(st, writes) ==
    [st EXCEPT
        !.decodedId = IF writes.decodedId = <<>> THEN @ ELSE writes.decodedId[1],
        !.idError = IF writes.idError = <<>> THEN @ ELSE writes.idError[1],
        !.decodedData = IF writes.decodedData = <<>> THEN @ ELSE writes.decodedData[1],
        !.dataError = IF writes.dataError = <<>> THEN @ ELSE writes.dataError[1]]

\* ---- Inputs typed into the two fields ----

ZeroPgnId == <<"0", "0", "0", "0", "0", "4", "0", "1">>

UiIdInputs ==
    {DefaultId,
     ZeroPgnId,
     <<"1", "8", "E", "A", "2", "3", "5", "1">>,
     <<"1", "D", "F", "2", "1", "4", "0", "0">>,
     <<"1", "9", "F", "2", "1", "4", "5">>,
     <<"1", "9", "F", "2", "1", "4", "5", "G">>,
     <<>>}

UiDataInputs ==
    BasePayloads
    \cup {<<>>,
          SubSeq(DefaultPayload, 1, 15),
          [DefaultPayload EXCEPT ![7] = "G"]}

(***************************************************************************)
(* Spec: either component, from its mount, under input changes             *)
(***************************************************************************)

Init ==
    /\ uiImpl \in {"App", "Hook"}
    /\ idInput = IF uiImpl = "App" THEN DefaultId ELSE <<>>
    /\ dataInput = IF uiImpl = "App" THEN DefaultPayload ELSE <<>>
    /\ decodedId = <<>>
    /\ decodedData = <<>>
    /\ idError = ""
    /\ dataError = ""
    /\ effectIdPending = (uiImpl = "App")
    /\ effectDataPending = (uiImpl = "App")
    /\ queued = NoWrites
    /\ ran = {}
    /\ hexInput = <<>>
    /\ canImpl = "none"
    /\ canResult = NoResult
    /\ pgnArg = Num(0)
    /\ dataImpl = "none"

EffectsDue == effectIdPending \/ effectDataPending

\* Every change has been processed: no effect is due, no write is waiting.
Settled == ~EffectsDue /\ queued = NoWrites

HookChangeIdInput ==
    /\ uiImpl = "Hook"
    /\ \E input \in UiIdInputs :
          /\ input # idInput
          /\ SetUi(handleIdInputChangeHook(CurrentUi, input))
          /\ ran' = {"decodeId"}
                    \cup (IF HasTruthyPgn(decodeIdHook(CurrentUi, input).decodedId)
                          THEN {"decodeData"} ELSE {})
    /\ UNCHANGED <<uiImpl, effectIdPending, effectDataPending, queued,
                   canVars, pgnArg, dataImpl>>

HookChangeDataInput ==
    /\ uiImpl = "Hook"
    /\ \E input \in UiDataInputs :
          /\ input # dataInput
          /\ SetUi(handleDataInputChangeHook(CurrentUi, input))
    /\ ran' = IF HasTruthyPgn(decodedId) THEN {"decodeData"} ELSE {}
    /\ UNCHANGED <<uiImpl, effectIdPending, effectDataPending, queued,
                   canVars, pgnArg, dataImpl>>

\* handleIdInputChange of App.tsx and the render of its write: setIdInput,
\* which makes the effect on [idInput] due.  Writes of earlier effects that
\* are still queued are not part of this render.
AppChangeIdInput ==
    /\ uiImpl = "App"
    /\ ~EffectsDue
    /\ \E input \in UiIdInputs :
          /\ input # idInput
          /\ idInput' = input
    /\ effectIdPending' = TRUE
    /\ ran' = {}
    /\ UNCHANGED <<uiImpl, dataInput, decodedId, decodedData, idError, dataError,
                   effectDataPending, queued, canVars, pgnArg, dataImpl>>

\* handleDataInputChange of App.tsx and the render of its write.
AppChangeDataInput ==
    /\ uiImpl = "App"
    /\ ~EffectsDue
    /\ \E input \in UiDataInputs :
          /\ input # dataInput
          /\ dataInput' = input
    /\ effectDataPending' = TRUE
    /\ ran' = {}
    /\ UNCHANGED <<uiImpl, idInput, decodedId, decodedData, idError, dataError,
                   effectIdPending, queued, canVars, pgnArg, dataImpl>>

\* The effects of one commit of App.tsx: those whose dependencies changed,
\* in declaration order, all reading the render's state; their writes are
\* queued.
AppRunEffects ==
    /\ uiImpl = "App"
    /\ EffectsDue
    /\ queued' = commitEffectsApp(CurrentUi, effectIdPending, effectDataPending, queued)
    /\ effectIdPending' = FALSE
    /\ effectDataPending' = FALSE
    /\ ran' = (IF effectIdPending THEN {"decodeId"} ELSE {})
              \cup (IF effectDataPending /\ HasTruthyPgn(decodedId)
                    THEN {"decodeData"} ELSE {})
    /\ UNCHANGED <<uiImpl, idInput, dataInput, decodedId, decodedData, idError,
                   dataError, canVars, pgnArg, dataImpl>>

\* The render of the queued writes.  A decodedId that is not the one of
\* the previous render (a fresh record, or null after a record) makes the
\* effect on [decodedId, dataInput] due.
AppRenderWrites ==
    /\ uiImpl = "App"
    /\ ~EffectsDue
    /\ queued # NoWrites
    /\ SetUi(applyWrites(CurrentUi, queued))
    /\ queued' = NoWrites
    /\ effectDataPending' =
          (queued.decodedId # <<>> /\ (queued.decodedId[1] # <<>> \/ decodedId # <<>>))
    /\ ran' = {}
    /\ UNCHANGED <<uiImpl, effectIdPending, canVars, pgnArg, dataImpl>>

Next ==
    \/ HookChangeIdInput
    \/ HookChangeDataInput
    \/ AppChangeIdInput
    \/ AppChangeDataInput
    \/ AppRunEffects
    \/ AppRenderWrites

Spec == Init /\ [][Next]_vars

(***************************************************************************)
(* Claims about the two components                                         *)
(***************************************************************************)

\* The identifier input of the state failed to decode.
IdFailed == decodedId = <<>> /\ idError # ""

\* C13: whenever the identifier input has failed to decode (idError set,
\* decodedId null) the decoded payload shown is empty, and the step that
\* led there ran no payload decode; this lasts until an identifier decodes
\* again, since it is to hold in every state where the failure is shown.
C13_FailureSuppressesPayload ==
    IdFailed => (decodedData = <<>> /\ "decodeData" \notin ran)

\* C14: a step that runs decodeData, whatever its outcome, writes only
\* decodedData and dataError: the decoded identifier and the identifier
\* error, shown or queued, are left as they were, or, when the same handler
\* ran decodeId first, exactly as decodeId wrote them.  PGN_DATA is a
\* constant that no step assigns.
C14_DecodeDataFrame ==
    [][("decodeData" \in ran')
       => IF "decodeId" \in ran'
          THEN /\ decodedId' = DecodeCanMessage(uiImpl, idInput').value
               /\ idError' = ""
          ELSE /\ UNCHANGED <<decodedId, idError>>
               /\ queued'.decodedId = queued.decodedId
               /\ queued'.idError = queued.idError]_vars

\* A payload decode that failed with Unknown PGN and ran alone, under a
\* decoded identifier.
C14_Witness ==
    /\ ran = {"decodeData"}
    /\ dataError = "Unknown PGN"
    /\ decodedData = <<>>
    /\ decodedId # <<>>
    /\ idError = ""

DecodeData(impl, data, pgn) ==
    IF impl = "App" THEN decodeDataApp(data, pgn) ELSE decodeDataHook(data, pgn)

\* C16: once every change has been processed, the displayed decoded payload
\* is never stale: decodedData is non-empty only if the current identifier
\* input decodes to a PGN with a registered schema and the current data
\* input has 16 characters, and it is then the decode of the current data
\* input against that PGN.
C16_NeverStale ==
    (Settled /\ decodedData # <<>>)
    => LET r == DecodeCanMessage(uiImpl, idInput)
       IN  /\ ~r.threw
           /\ Registered(r.value[1].pgn)
           /\ Len(dataInput) = 16
           /\ decodedData = DecodeData(uiImpl, dataInput, r.value[1].pgn).decodedData

====
